---- MODULE Spec2Model ----
(***************************************************************************)
(* A model of src/price_monitor.py: the PriceMonitor poll loop.            *)
(*                                                                         *)
(* One process runs main(): __aenter__ (setup_browser), then run(), whose  *)
(* loop body is check_price_changes followed by a sleep.  The model has    *)
(* one action per step of that cycle; pc is the position of the process.   *)
(* The data file, the browser handles and the cycle's local variables are  *)
(* the state.  Metric values are naturals; a percentage change is kept as  *)
(* the exact fraction num/den (den > 0) that the float expression of       *)
(* calculate_percentage_change approximates.                               *)
(***************************************************************************)
EXTENDS Integers, FiniteSets, Sequences, TLC

\* ---------------------------------------------------------------- bounds

\* Number of distinct non-zero metric values the source can report.
PriceLevels == 2

\* The count of Playwright drivers that were started and never stopped is
\* kept up to this number (it stands for "this many or more").
MaxDrivers == 2

\* ------------------------------------------------------ program constants

\* config['check_interval'] default, and the backoff of run's except branch.
check_interval == 300
backoff == 60
\* Default of PRICE_CHANGE_THRESHOLD / MCAP_CHANGE_THRESHOLD.
default_threshold == 5

\* Values a metric can take: 0 and 100, 105, 110, ...
Values == {0} \cup {100 + 5 * i : i \in 0 .. PriceLevels - 1}

\* Thresholds the environment can configure: 0 (not positive) or the default.
Thresholds == {0, default_threshold}

VARIABLES
    price_threshold,      \* config['price_threshold']
    mcap_threshold,       \* config['mcap_threshold']
    data_file,            \* content of config['data_file'] on disk
    browser,              \* self.browser is not None
    context,              \* self.context is not None
    page,                 \* self.page is not None
    pc,                   \* position of the process
    previous_data,        \* local of check_price_changes
    token_data,           \* local of check_price_changes
    price_change,         \* local of check_price_changes
    mcap_change,          \* local of check_price_changes
    should_notify,        \* local of check_price_changes
    notification_message, \* metrics whose lines were appended to the message
    file0,                \* history: data_file when the cycle started
    sends,                \* history: send_notification calls in this cycle
    send_result,          \* history: "none", "ok" or "failed"
    saves,                \* history: save_data calls in this cycle
    save_arg,             \* history: the record passed to save_data
    save_result,          \* history: "none", "ok", "open_failed", "write_failed"
    failed_at,            \* history: step of the cycle that raised, or "none"
    delay,                \* history: seconds run() sleeps after this cycle
    prev_save_failed,     \* history: the previous cycle's save_data failed
    fresh,                \* history: the monitor was first started without a data file
    playwrights,          \* Playwright drivers started by setup_browser, not stopped
    prev_failed_send,     \* history: what the previous cycle fetched, if its delivery
                          \* failed and this cycle has not fetched something else
    pending_send          \* history: a notification was attempted and the record
                          \* advancing its baseline has not reached the file

config == <<price_threshold, mcap_threshold>>
handles == <<browser, context, page>>
locals == <<previous_data, token_data, price_change, mcap_change,
            should_notify, notification_message>>
history == <<file0, sends, send_result, saves, save_arg, save_result,
             failed_at, delay, prev_save_failed, fresh>>
session == <<handles, playwrights>>
ledger == <<prev_failed_send, pending_send>>
vars == <<config, data_file, session, pc, locals, history, ledger>>

\* ------------------------------------------------------------- records

NoRecord == [k \in {} |-> 0]

\* The record load_data returns when there is no file (lines 81-86).
DefaultRecord ==
    [price |-> 0, market_cap |-> 0,
     last_notification_price |-> 0, last_notification_market_cap |-> 0]

\* The data file: absent, a JSON object, or not parseable as JSON
\* (empty after open(..., 'w') truncated it, or cut short).  A JSON file
\* is kept as the object its text parses to.
AbsentFile == [kind |-> "absent", content |-> NoRecord]
CorruptFile == [kind |-> "corrupt", content |-> NoRecord]
JsonFile(rec) == [kind |-> "json", content |-> rec]

\* A record as save_data writes it at the end of a cycle.
FullRecord(p, m, lp, lm) ==
    [price |-> p, market_cap |-> m,
     last_notification_price |-> lp, last_notification_market_cap |-> lm,
     last_update |-> "iso"]

\* A data file written without the last_notification keys.
LegacyRecord(p, m) == [price |-> p, market_cap |-> m]

\* Data files the monitor can be started with.
InitialFiles ==
    {AbsentFile}
    \cup {JsonFile(FullRecord(p, m, lp, lm)) :
            p \in Values, m \in Values, lp \in Values, lm \in Values}
    \cup {JsonFile(LegacyRecord(p, p)) : p \in Values \ {0}}

\* token_data: nothing fetched yet, a well-formed answer, or an answer whose
\* fungibleToken is null.
NoToken == [kind |-> "none", price |-> 0, marketCap |-> 0]
NullToken == [kind |-> "null", price |-> 0, marketCap |-> 0]
Token(p, m) == [kind |-> "ok", price |-> p, marketCap |-> m]

current_price == token_data.price
current_market_cap == token_data.marketCap

\* ------------------------------------------------------- pure functions

Abs(x) == IF x < 0 THEN -x ELSE x

ZeroChange == [num |-> 0, den |-> 1]

\* calculate_percentage_change without the `previous == 0` guard.
calculate_percentage_change_unguarded(current, previous) ==
    [num |-> (current - previous) * 100, den |-> previous]

\* calculate_percentage_change (line 234), as an exact fraction.
calculate_percentage_change(current, previous) ==
    IF previous = 0
    THEN ZeroChange
    ELSE [num |-> (current - previous) * 100, den |-> previous]

\* Python's `a or b` on numbers (lines 179, 184).
Or(a, b) == IF a # 0 THEN a ELSE b

\* abs(change) >= threshold (lines 197, 202).
Exceeds(change, threshold) == Abs(change.num) >= threshold * change.den

\* Decide with the market-cap test of line 202 left out.
Decide_PriceOnly(pchange, mchange) == Exceeds(pchange, price_threshold)

\* The decision of lines 194-205.
Decide(pchange, mchange) ==
    Exceeds(pchange, price_threshold) \/ Exceeds(mchange, mcap_threshold)

\* MessageLines reporting both metrics in every message.
MessageLines_All(pchange, mchange) == {"price", "market_cap"}

\* The message lines appended at lines 197-205.
MessageLines(pchange, mchange) ==
    (IF Exceeds(pchange, price_threshold) THEN {"price"} ELSE {})
    \cup (IF Exceeds(mchange, mcap_threshold) THEN {"market_cap"} ELSE {})

\* AdvanceRecord advancing only the baseline of a metric that crossed its
\* own threshold.
AdvanceRecord_TriggeredOnly(p, m) ==
    FullRecord(p, m,
        IF "price" \in notification_message
            THEN p ELSE previous_data.last_notification_price,
        IF "market_cap" \in notification_message
            THEN m ELSE previous_data.last_notification_market_cap)

\* The record saved on a firing cycle (lines 209-215).
AdvanceRecord(p, m) == FullRecord(p, m, p, m)

\* HoldRecord advancing the baseline as a firing cycle does.
HoldRecord_Advance(prev, p, m) == FullRecord(p, m, p, m)

\* HoldRecord refreshing only last_update, the stored price and market_cap
\* staying those of the last firing cycle.
HoldRecord_StaleCurrent(prev, p, m) ==
    [k \in DOMAIN prev \cup {"last_update"} |->
        IF k = "last_update" THEN "iso" ELSE prev[k]]

\* The record saved on a quiet cycle (lines 217-222): {**previous_data, ...}.
HoldRecord(prev, p, m) ==
    [k \in DOMAIN prev \cup {"price", "market_cap", "last_update"} |->
        CASE k = "price" -> p
          [] k = "market_cap" -> m
          [] k = "last_update" -> "iso"
          [] OTHER -> prev[k]]

\* json_dump leaving the last_update member out of the text.
json_dump_NoTimestamp(data) ==
    {<<k, data[k]>> : k \in DOMAIN data \ {"last_update"}}

\* json.dump of a dict with string keys (line 91): the text of a JSON
\* object, a set of name/value members.
json_dump(data) == {<<k, data[k]>> : k \in DOMAIN data}

\* json.load of such a text (line 78): the dict of its members.
json_load(text) ==
    [k \in {member[1] : member \in text} |->
        (CHOOSE member \in text : member[1] = k)[2]]

\* -------------------------------------------------------------- Init

ResetLocals ==
    /\ previous_data' = NoRecord
    /\ token_data' = NoToken
    /\ price_change' = ZeroChange
    /\ mcap_change' = ZeroChange
    /\ should_notify' = FALSE
    /\ notification_message' = {}

ResetHistory ==
    /\ file0' = data_file
    /\ sends' = 0
    /\ send_result' = "none"
    /\ saves' = 0
    /\ save_arg' = NoRecord
    /\ save_result' = "none"
    /\ failed_at' = "none"
    /\ delay' = 0

Init ==
    /\ price_threshold \in Thresholds
    /\ mcap_threshold \in Thresholds
    /\ data_file \in InitialFiles
    /\ browser = FALSE
    /\ context = FALSE
    /\ page = FALSE
    /\ pc = "start"
    /\ previous_data = NoRecord
    /\ token_data = NoToken
    /\ price_change = ZeroChange
    /\ mcap_change = ZeroChange
    /\ should_notify = FALSE
    /\ notification_message = {}
    /\ file0 = data_file
    /\ sends = 0
    /\ send_result = "none"
    /\ saves = 0
    /\ save_arg = NoRecord
    /\ save_result = "none"
    /\ failed_at = "none"
    /\ delay = 0
    /\ prev_save_failed = FALSE
    /\ fresh = (data_file = AbsentFile)
    /\ playwrights = 0
    /\ prev_failed_send = NoToken
    /\ pending_send = FALSE

\* ------------------------------------------------------------ browser

\* How far setup_browser gets (lines 66-72) before a step raises.
SetupOutcomes == {"ok", "launch_failed", "context_failed", "page_failed"}

\* setup_browser (lines 63-73) with outcome o: the handles it leaves.
\* With self.browser already set it does nothing.  Otherwise it starts a
\* Playwright driver (line 66), held only by a local variable.
setup_browser(o) ==
    IF browser
    THEN /\ o = "ok"
         /\ UNCHANGED session
    ELSE /\ playwrights' = IF playwrights < MaxDrivers
                            THEN playwrights + 1 ELSE MaxDrivers
         /\ browser' = (o \in {"ok", "context_failed", "page_failed"})
         /\ context' = (o \in {"ok", "page_failed"})
         /\ page' = (o = "ok")

\* cleanup (lines 236-246): either every close() returns and the three
\* handles are reset, or a close() raises and none is reset.  The driver
\* started by setup_browser is not stopped.
cleanup(ok) ==
    /\ IF ok
       THEN /\ browser' = FALSE
            /\ context' = FALSE
            /\ page' = FALSE
       ELSE /\ browser \/ context \/ page
            /\ UNCHANGED handles
    /\ UNCHANGED playwrights

\* --------------------------------------------------------------- main

\* main (lines 266-268): `async with PriceMonitor()` runs __aenter__, which
\* calls setup_browser; if that raises the process ends.
Enter ==
    /\ pc = "start"
    /\ \E o \in SetupOutcomes :
        /\ setup_browser(o)
        /\ pc' = IF o = "ok" THEN "loop" ELSE "exited"
    /\ UNCHANGED <<config, data_file, locals, history, ledger>>

\* ------------------------------------------------ check_price_changes

\* Lines 160-161: `if not self.page: await self.setup_browser()`.
BeginCycle ==
    /\ pc = "loop"
    /\ IF page
       THEN /\ UNCHANGED session
            /\ pc' = "goto"
            /\ UNCHANGED failed_at
       ELSE \E o \in SetupOutcomes :
            /\ setup_browser(o)
            /\ pc' = IF o = "ok" THEN "goto" ELSE "except"
            /\ failed_at' = IF o = "ok" THEN "none" ELSE "setup"
    /\ UNCHANGED <<config, data_file, locals, file0, sends, send_result, saves,
                   save_arg, save_result, delay, prev_save_failed, fresh>>
    /\ UNCHANGED ledger

\* Lines 164-169: page.goto and wait_for_load_state.  With self.page None
\* (setup_browser returned without creating one) the call raises.
Goto ==
    /\ pc = "goto"
    /\ \E ok \in BOOLEAN :
        /\ ok => page
        /\ pc' = IF ok THEN "load" ELSE "except"
        /\ failed_at' = IF ok THEN "none" ELSE "goto"
    /\ UNCHANGED <<config, data_file, session, locals, file0, sends, send_result,
                   saves, save_arg, save_result, delay, prev_save_failed, fresh>>
    /\ UNCHANGED ledger

\* load_data (lines 75-86): the parsed file, the default record when
\* there is no file; json.load raises on a file that is not JSON and
\* only FileNotFoundError is caught.
LoadRaises(f) == f.kind = "corrupt"
LoadResult(f) == IF f.kind = "absent" THEN DefaultRecord ELSE f.content

load_data ==
    /\ pc = "load"
    /\ IF LoadRaises(data_file)
       THEN /\ pc' = "except"
            /\ failed_at' = "load"
            /\ UNCHANGED previous_data
       ELSE /\ pc' = "fetch"
            /\ previous_data' = LoadResult(data_file)
            /\ UNCHANGED failed_at
    /\ UNCHANGED <<config, data_file, session, token_data, price_change,
                   mcap_change, should_notify, notification_message, file0,
                   sends, send_result, saves, save_arg, save_result, delay,
                   prev_save_failed, fresh>>
    /\ UNCHANGED ledger

\* fetch_token_data (lines 96-145) succeeds: response['data']['fungibleToken']
\* is returned, either an object with the two metrics or null.
FetchedTokens == {Token(p, m) : p \in Values, m \in Values} \cup {NullToken}

fetch_token_data ==
    /\ pc = "fetch"
    /\ \E t \in FetchedTokens :
        /\ token_data' = t
        /\ prev_failed_send' = IF t = prev_failed_send THEN t ELSE NoToken
    /\ pc' = "eval"
    /\ UNCHANGED <<config, data_file, session, previous_data, price_change,
                   mcap_change, should_notify, notification_message, history,
                   pending_send>>

\* fetch_token_data swallowing its error and returning nothing, so that
\* the cycle goes on to save.
fetch_token_data_swallows ==
    /\ pc = "fetch"
    /\ pc' = "save"
    /\ failed_at' = "fetch"
    /\ UNCHANGED <<config, data_file, session, locals, file0, sends, send_result,
                   saves, save_arg, save_result, delay, prev_save_failed, fresh>>
    /\ UNCHANGED ledger

\* fetch_token_data raises (lines 131-132, 136-145): evaluate failed or the
\* response carried GraphQL errors.
fetch_token_data_raises ==
    /\ pc = "fetch"
    /\ pc' = "except"
    /\ failed_at' = "fetch"
    /\ UNCHANGED <<config, data_file, session, locals, file0, sends, send_result,
                   saves, save_arg, save_result, delay, prev_save_failed, fresh>>
    /\ UNCHANGED ledger

\* Lines 174-185 raise: token_data is None (TypeError) or previous_data
\* has no last_notification key (KeyError).
EvaluateRaises ==
    \/ token_data.kind # "ok"
    \/ "last_notification_price" \notin DOMAIN previous_data
    \/ "last_notification_market_cap" \notin DOMAIN previous_data

\* Lines 177-180 and 182-185.
PriceChange ==
    calculate_percentage_change(
        current_price, Or(previous_data.last_notification_price, current_price))
McapChange ==
    calculate_percentage_change(
        current_market_cap,
        Or(previous_data.last_notification_market_cap, current_market_cap))

\* Lines 174-207: the changes, the decision and the message.
Evaluate ==
    /\ pc = "eval"
    /\ IF EvaluateRaises
       THEN /\ pc' = "except"
            /\ failed_at' = "eval"
            /\ UNCHANGED <<price_change, mcap_change, should_notify,
                           notification_message>>
       ELSE /\ price_change' = PriceChange
            /\ mcap_change' = McapChange
            /\ should_notify' = Decide(PriceChange, McapChange)
            /\ notification_message' = MessageLines(PriceChange, McapChange)
            /\ pc' = IF Decide(PriceChange, McapChange) THEN "notify" ELSE "save"
            /\ UNCHANGED failed_at
    /\ UNCHANGED <<config, data_file, session, previous_data, token_data, file0,
                   sends, send_result, saves, save_arg, save_result, delay,
                   prev_save_failed, fresh>>
    /\ UNCHANGED ledger

\* send_notification without its try/except: a delivery error propagates.
send_notification_propagates ==
    /\ pc = "notify"
    /\ sends' = sends + 1
    /\ \E ok \in BOOLEAN :
        /\ send_result' = IF ok THEN "ok" ELSE "failed"
        /\ pc' = IF ok THEN "save" ELSE "except"
        /\ failed_at' = IF ok THEN "none" ELSE "send"
    /\ UNCHANGED <<config, data_file, session, locals, file0, saves, save_arg,
                   save_result, delay, prev_save_failed, fresh>>
    /\ pending_send' = TRUE
    /\ UNCHANGED prev_failed_send

\* send_notification (lines 147-156, called at 208): the delivery succeeds
\* or raises; the exception is logged and swallowed.
send_notification ==
    /\ pc = "notify"
    /\ sends' = sends + 1
    /\ \E ok \in BOOLEAN : send_result' = IF ok THEN "ok" ELSE "failed"
    /\ pc' = "save"
    /\ UNCHANGED <<config, data_file, session, locals, file0, saves, save_arg,
                   save_result, failed_at, delay, prev_save_failed, fresh>>
    /\ pending_send' = TRUE
    /\ UNCHANGED prev_failed_send

\* SaveArgument advancing the baseline only when the delivery succeeded.
SaveArgument_AdvanceOnDelivery ==
    IF should_notify /\ send_result = "ok"
    THEN AdvanceRecord(current_price, current_market_cap)
    ELSE HoldRecord(previous_data, current_price, current_market_cap)

\* The argument of save_data at lines 209 and 217.
SaveArgument ==
    IF should_notify
    THEN AdvanceRecord(current_price, current_market_cap)
    ELSE HoldRecord(previous_data, current_price, current_market_cap)

\* save_data, line 90: open(data_file, 'w') truncates the file, or raises
\* and leaves it alone; the exception is logged and swallowed (lines 93-94)
\* and check_price_changes returns normally.
save_data_open ==
    /\ pc = "save"
    /\ saves' = saves + 1
    /\ save_arg' = SaveArgument
    /\ \E ok \in BOOLEAN :
        IF ok
        THEN /\ data_file' = CorruptFile
             /\ pc' = "saving"
             /\ UNCHANGED <<save_result, delay>>
        ELSE /\ UNCHANGED data_file
             /\ save_result' = "open_failed"
             /\ pc' = "sleep"
             /\ delay' = check_interval
    /\ UNCHANGED <<config, session, locals, file0, sends, send_result, failed_at,
                   prev_save_failed, fresh>>
    /\ UNCHANGED ledger

\* save_data, line 91 and the close of the `with` block: the record reaches
\* the file, or the write raises and the truncated file stays; either way
\* check_price_changes returns normally and run sleeps check_interval.
save_data_write ==
    /\ pc = "saving"
    /\ \E ok \in BOOLEAN :
        /\ data_file' = IF ok THEN JsonFile(json_load(json_dump(save_arg)))
                              ELSE data_file
        /\ save_result' = IF ok THEN "ok" ELSE "write_failed"
        /\ pending_send' = IF ok /\ should_notify THEN FALSE ELSE pending_send
    /\ pc' = "sleep"
    /\ delay' = check_interval
    /\ UNCHANGED <<config, session, locals, file0, sends, send_result, saves,
                   save_arg, failed_at, prev_save_failed, fresh>>
    /\ UNCHANGED prev_failed_send

\* Except with run's try/except left out: the exception leaves run and the
\* process ends.
Except_Propagates ==
    /\ pc = "except"
    /\ \E ok \in BOOLEAN : cleanup(ok)
    /\ pc' = "exited"
    /\ UNCHANGED <<config, data_file, locals, history, ledger>>

\* Except with the sleep of the normal path.
Except_NormalDelay ==
    /\ pc = "except"
    /\ \E ok \in BOOLEAN : cleanup(ok)
    /\ pc' = "sleep"
    /\ delay' = check_interval
    /\ UNCHANGED <<config, data_file, locals, file0, sends, send_result, saves,
                   save_arg, save_result, failed_at, prev_save_failed, fresh>>
    /\ UNCHANGED ledger

\* Lines 224-231 and run's except branch (255-257): cleanup is attempted,
\* whatever it raises is dropped, the exception is re-raised and run sleeps
\* the backoff.
Except ==
    /\ pc = "except"
    /\ \E ok \in BOOLEAN : cleanup(ok)
    /\ pc' = "sleep"
    /\ delay' = backoff
    /\ UNCHANGED <<config, data_file, locals, file0, sends, send_result, saves,
                   save_arg, save_result, failed_at, prev_save_failed, fresh>>
    /\ UNCHANGED ledger

\* ---------------------------------------------------------------- run

\* run (lines 251-257): the sleep ends and the loop starts the next cycle.
Sleep ==
    /\ pc = "sleep"
    /\ pc' = "loop"
    /\ prev_save_failed' = (save_result \in {"open_failed", "write_failed"})
    /\ ResetLocals
    /\ ResetHistory
    /\ UNCHANGED <<config, data_file, handles, fresh>>
    /\ prev_failed_send' = IF send_result = "failed" THEN token_data ELSE NoToken
    /\ UNCHANGED <<playwrights, pending_send>>

\* -------------------------------------------------------- environment

\* The process is killed (signal, power loss) at any point; its memory
\* and its browser session are gone, the data file stays as it is.
Kill ==
    /\ pc \notin {"dead", "exited"}
    /\ pc' = "dead"
    /\ browser' = FALSE
    /\ context' = FALSE
    /\ page' = FALSE
    /\ prev_save_failed' = FALSE
    /\ ResetLocals
    /\ ResetHistory
    /\ UNCHANGED <<config, data_file, fresh>>
    /\ playwrights' = 0
    /\ prev_failed_send' = NoToken
    /\ UNCHANGED pending_send

\* The monitor is started again on the same data file: a new process, with
\* the handles of __init__ (lines 31-33) and no driver of the ended one.
Restart ==
    /\ pc \in {"dead", "exited"}
    /\ pc' = "start"
    /\ browser' = FALSE
    /\ context' = FALSE
    /\ page' = FALSE
    /\ playwrights' = 0
    /\ UNCHANGED <<config, data_file, locals, history>>
    /\ UNCHANGED ledger

Next ==
    \/ Enter
    \/ BeginCycle
    \/ Goto
    \/ load_data
    \/ fetch_token_data
    \/ fetch_token_data_raises
    \/ Evaluate
    \/ send_notification
    \/ save_data_open
    \/ save_data_write
    \/ Except
    \/ Sleep
    \/ Kill
    \/ Restart

Spec == Init /\ [][Next]_vars

\* The steps of the program alone, with nothing killing the process.
RunNext ==
    \/ Enter
    \/ BeginCycle
    \/ Goto
    \/ load_data
    \/ fetch_token_data
    \/ fetch_token_data_raises
    \/ Evaluate
    \/ send_notification
    \/ save_data_open
    \/ save_data_write
    \/ Except
    \/ Sleep

\* The start of an undisturbed run: the shipped thresholds (lines 21-22) and
\* one data file of each kind the monitor can meet (none, a complete record,
\* a record without the last_notification keys).
LiveInit ==
    /\ Init
    /\ price_threshold = default_threshold
    /\ mcap_threshold = default_threshold
    /\ data_file \in {AbsentFile,
                      JsonFile(FullRecord(100, 100, 100, 100)),
                      JsonFile(LegacyRecord(100, 100))}

\* The event loop resumes the one task whenever it can take a step: every
\* await of the cycle returns or raises, and every sleep ends.
LiveSpec == LiveInit /\ [][RunNext]_vars /\ WF_vars(RunNext)

\* ------------------------------------------------------------- claims

\* The cycle got past the evaluation of lines 174-207 without raising.
Evaluated == pc \in {"notify", "save", "saving", "sleep"} /\ failed_at = "none"

\* A cycle that returned normally, without and with a notification decision.
QuietCycleDone == pc = "sleep" /\ failed_at = "none" /\ ~should_notify
FiringCycleDone == pc = "sleep" /\ failed_at = "none" /\ should_notify

PositiveThresholds == price_threshold > 0 /\ mcap_threshold > 0

\* The data file holds a JSON object whose key k has value v.
PersistedIs(k, v) ==
    /\ data_file.kind = "json"
    /\ k \in DOMAIN data_file.content
    /\ data_file.content[k] = v

\* C1: in every cycle that reaches evaluation, should_notify is true iff
\* abs(price_change) >= price_threshold or abs(mcap_change) >= mcap_threshold,
\* and send_notification is called (once) iff should_notify is true.
C1_ThresholdCorrectness ==
    Evaluated =>
        /\ should_notify =
             (\/ Abs(price_change.num) >= price_threshold * price_change.den
              \/ Abs(mcap_change.num) >= mcap_threshold * mcap_change.den)
        /\ sends = (IF should_notify /\ pc # "notify" THEN 1 ELSE 0)

\* C1 witness: a finished cycle that notified because of the market cap
\* alone, the price change staying under its threshold.
C1_Witness ==
    /\ FiringCycleDone
    /\ sends = 1
    /\ PositiveThresholds
    /\ Abs(price_change.num) < price_threshold * price_change.den
    /\ Abs(mcap_change.num) >= mcap_threshold * mcap_change.den

\* What C2 says of the data file after a quiet cycle.
C2_Persisted ==
    /\ PersistedIs("last_notification_price",
                   LoadResult(file0).last_notification_price)
    /\ PersistedIs("last_notification_market_cap",
                   LoadResult(file0).last_notification_market_cap)
    /\ PersistedIs("price", current_price)
    /\ PersistedIs("market_cap", current_market_cap)

\* C2 as stated: after any cycle in which should_notify is false, the
\* persisted last_notification values are those from before the cycle and
\* the persisted price and market_cap are the fetched values.
C2_Original == QuietCycleDone => C2_Persisted

\* C2 amended: the same, for a quiet cycle whose save_data wrote the file
\* without error.
C2_QuietCycleHoldsBaseline ==
    (QuietCycleDone /\ save_result = "ok") => C2_Persisted

\* C2 witness: a quiet, saved cycle with a non-zero baseline, a fetched
\* price different from the baseline and from the previously stored price.
C2_Witness ==
    /\ QuietCycleDone
    /\ save_result = "ok"
    /\ file0.kind = "json"
    /\ file0.content.last_notification_price # 0
    /\ current_price # file0.content.last_notification_price
    /\ current_price # file0.content.price

\* What C3 says of the data file after a firing cycle.
C3_Persisted ==
    /\ PersistedIs("last_notification_price", current_price)
    /\ PersistedIs("price", current_price)
    /\ PersistedIs("last_notification_market_cap", current_market_cap)
    /\ PersistedIs("market_cap", current_market_cap)

\* C3 as stated: after any cycle in which should_notify is true, both
\* last_notification values and both current values in the data file equal
\* the fetched values.
C3_Original == FiringCycleDone => C3_Persisted

\* C3 amended: the same, for a firing cycle whose save_data wrote the file
\* without error.
C3_FiringCycleAdvancesBaseline ==
    (FiringCycleDone /\ save_result = "ok") => C3_Persisted

\* C3 witness: a firing, saved cycle in which only the price crossed its
\* threshold while the market cap moved away from its non-zero baseline.
C3_Witness ==
    /\ FiringCycleDone
    /\ save_result = "ok"
    /\ notification_message = {"price"}
    /\ previous_data.last_notification_market_cap # 0
    /\ current_market_cap # previous_data.last_notification_market_cap

\* C4 as stated, on its own example: the monitor was started without a
\* data file and with positive thresholds, an earlier cycle stored price
\* p1 > 0, and this cycle fetched a price p2 > 0 differing from p1 by at
\* least price_threshold percent and saved; then a notification was sent and the
\* persisted last_notification_price is non-zero.
C4_FiringReachableFromFresh ==
    (/\ fresh
     /\ PositiveThresholds
     /\ pc = "sleep"
     /\ failed_at = "none"
     /\ save_result = "ok"
     /\ file0.kind = "json"
     /\ file0.content.price > 0
     /\ current_price > 0
     /\ Abs(current_price - file0.content.price) * 100
          >= price_threshold * file0.content.price)
    => (/\ sends = 1
        /\ data_file.content.last_notification_price # 0)

\* Lemma behind C4: started without a data file and with positive
\* thresholds, the monitor never calls send_notification and every record
\* it writes keeps both last_notification values 0.
FreshNeverFires ==
    (fresh /\ PositiveThresholds) =>
        /\ sends = 0
        /\ data_file.kind = "json" =>
            /\ data_file.content.last_notification_price = 0
            /\ data_file.content.last_notification_market_cap = 0

\* C5: for every metric whose loaded last_notification value is 0, the
\* computed change is exactly 0 with a non-zero divisor, and for a positive
\* threshold that metric does not trigger.
C5_ZeroBaselineSafety ==
    Evaluated =>
        /\ previous_data.last_notification_price = 0 =>
            /\ price_change.den # 0
            /\ price_change.num = 0
            /\ price_threshold > 0 => "price" \notin notification_message
        /\ previous_data.last_notification_market_cap = 0 =>
            /\ mcap_change.den # 0
            /\ mcap_change.num = 0
            /\ mcap_threshold > 0 => "market_cap" \notin notification_message

\* C5 witness: an evaluated cycle with both baselines 0, a fetched price of
\* 0 and a fetched market cap that differs from the stored non-zero one.
C5_Witness ==
    /\ Evaluated
    /\ PositiveThresholds
    /\ previous_data.last_notification_price = 0
    /\ previous_data.last_notification_market_cap = 0
    /\ current_price = 0
    /\ previous_data.market_cap > 0
    /\ current_market_cap > 0
    /\ current_market_cap # previous_data.market_cap

\* The file gives no baseline: absent, or each last_notification value is
\* missing or zero.
MissingOrZero(rec, k) == k \notin DOMAIN rec \/ rec[k] = 0
NoBaseline(f) ==
    \/ f.kind = "absent"
    \/ /\ f.kind = "json"
       /\ MissingOrZero(f.content, "last_notification_price")
       /\ MissingOrZero(f.content, "last_notification_market_cap")

\* C6 as stated: with positive thresholds, in a cycle that starts with no
\* data file or with a record whose last_notification values are missing
\* or zero, and whose fetch returned values, nothing raises, both changes
\* are 0, no notification is sent, and the record passed to save_data has
\* the fetched price and market_cap and both last_notification values 0.
C6_FirstCycle ==
    (/\ PositiveThresholds
     /\ NoBaseline(file0)
     /\ token_data.kind = "ok"
     /\ pc \in {"except", "notify", "save", "saving", "sleep"})
    => (/\ failed_at = "none"
        /\ price_change.num = 0
        /\ mcap_change.num = 0
        /\ ~should_notify
        /\ sends = 0
        /\ saves = 1 =>
            /\ save_arg.price = current_price
            /\ save_arg.market_cap = current_market_cap
            /\ save_arg.last_notification_price = 0
            /\ save_arg.last_notification_market_cap = 0)

\* C7: if the page navigation or fetch_token_data raised in a cycle, then
\* up to the end of that cycle send_notification and save_data were not
\* called and the data file is what it was when the cycle started.
C7_FetchFailureIsolation ==
    failed_at \in {"goto", "fetch"} =>
        /\ sends = 0
        /\ saves = 0
        /\ data_file = file0

\* C7 witness: a cycle over an existing record whose fetch raised, now
\* sleeping the backoff.
C7_Witness ==
    /\ pc = "sleep"
    /\ failed_at = "fetch"
    /\ delay = backoff
    /\ file0.kind = "json"

\* C8 as stated: at every moment the data file holds the complete content
\* it had when the cycle started or the complete record being saved.
C8_AtomicSave ==
    \/ data_file = file0
    \/ saves = 1 /\ data_file = JsonFile(save_arg)

\* C9 as stated: a failing save_data leaves the cycle successful (no
\* backoff), and in the cycle after it load_data does not raise and, when
\* the fetch returned values and the write worked, the file holds the
\* complete record with the newly fetched values.
C9_SaveFailureDoesNotBlock ==
    /\ (pc = "sleep" /\ save_result \in {"open_failed", "write_failed"}) =>
        (failed_at = "none" /\ delay = check_interval)
    /\ prev_save_failed => failed_at # "load"
    /\ (prev_save_failed /\ pc = "sleep" /\ token_data.kind = "ok"
            /\ save_result = "ok") =>
        (/\ data_file = JsonFile(save_arg)
         /\ PersistedIs("price", current_price)
         /\ PersistedIs("market_cap", current_market_cap))

\* C10: when a cycle decided to notify and the delivery failed, nothing
\* raised, save_data was called with both last_notification values advanced
\* to the fetched values (and that record is in the file when the write
\* worked), and run sleeps check_interval, not the backoff.
C10_SendFailureSwallowed ==
    (pc = "sleep" /\ should_notify /\ send_result = "failed") =>
        /\ failed_at = "none"
        /\ delay = check_interval
        /\ saves = 1
        /\ save_arg.last_notification_price = current_price
        /\ save_arg.last_notification_market_cap = current_market_cap
        /\ save_result = "ok" => C3_Persisted

\* C10 witness: a finished cycle whose delivery failed and whose save moved
\* a non-zero baseline to a different fetched price.
C10_Witness ==
    /\ pc = "sleep"
    /\ should_notify
    /\ send_result = "failed"
    /\ save_result = "ok"
    /\ previous_data.last_notification_price # 0
    /\ previous_data.last_notification_price # current_price
    /\ PersistedIs("last_notification_price", current_price)

\* This cycle follows one whose delivery failed and has fetched the same
\* values as that one.
SameValuesAfterFailedSend ==
    prev_failed_send.kind = "ok" /\ token_data = prev_failed_send

\* C11 as stated: in the cycle after a failed delivery, a fetch returning
\* the same values causes no notification attempt, whatever else happened
\* in the failing cycle.
C11_Original == SameValuesAfterFailedSend => (pc # "notify" /\ sends = 0)

\* C11 amended: the same, when the thresholds are positive and the failing
\* cycle's save_data wrote the file without error.
C11_FailedSendNotRetried ==
    (SameValuesAfterFailedSend /\ PositiveThresholds /\ ~prev_save_failed)
        => (pc # "notify" /\ sends = 0)

\* C11 witness: the cycle after a failed delivery fetched the same values,
\* evaluated them against the advanced baseline and ended without sending.
C11_Witness ==
    /\ SameValuesAfterFailedSend
    /\ PositiveThresholds
    /\ ~prev_save_failed
    /\ QuietCycleDone
    /\ sends = 0
    /\ previous_data.last_notification_price = current_price
    /\ current_price > 0

\* The positions of the process inside run's loop.
LoopPositions ==
    {"loop", "goto", "load", "fetch", "eval", "notify", "save", "saving",
     "except", "sleep"}

\* C12: no step taken inside run's loop leaves the loop, every cycle that
\* raised reaches run's sleep, and after every cycle, failed or not, the
\* loop starts another one.
C12_LoopNeverTerminates ==
    /\ [][(pc \in LoopPositions) => (pc' \in LoopPositions)]_vars
    /\ (pc = "except") ~> (pc = "sleep" /\ failed_at # "none")
    /\ (pc = "sleep") ~> (pc = "loop")
    /\ (pc = "loop") ~> (pc \in {"goto", "except"})

\* C12 witness: the loop is starting a cycle right after a cycle that
\* raised and whose cleanup reset the page.
C12_Witness == pc = "loop" /\ ~page /\ playwrights > 0

\* C13: run sleeps check_interval after a cycle that returned normally and
\* the fixed backoff after a cycle that raised, whatever came before.
C13_InterCycleDelay ==
    pc = "sleep" =>
        delay = (IF failed_at = "none" THEN check_interval ELSE backoff)

\* C13 witness: a cycle that raised in setup_browser, which is only called
\* after an earlier failed cycle, sleeps the same backoff.
C13_Witness == pc = "sleep" /\ failed_at = "setup" /\ delay = backoff

\* ------------------------------------------------------------------ C14

\* The cycle's fetch returned the token's metrics and the cycle is over.
FetchedCycleOver == pc = "sleep" /\ token_data.kind = "ok"

\* The data file's current values are the ones fetched in this cycle.
CurrentPersisted ==
    PersistedIs("price", current_price)
        /\ PersistedIs("market_cap", current_market_cap)

\* C14 as stated: after every cycle whose fetch succeeded, whether or not a
\* notification fired, the persisted price and market_cap equal the values
\* fetched in that cycle.
C14_Original == FetchedCycleOver => CurrentPersisted

\* C14 amended: after a cycle whose fetch succeeded, the persisted price and
\* market_cap equal the fetched values when the cycle returned without
\* raising and its save_data wrote the file without error; a cycle that
\* raised after its fetch leaves the data file as it found it.
C14_CurrentValuesPersisted ==
    /\ (FetchedCycleOver /\ failed_at = "none" /\ save_result = "ok")
            => CurrentPersisted
    /\ (FetchedCycleOver /\ failed_at # "none") => data_file = file0

\* C14 witness: a quiet cycle that read a stored record, fetched a price and
\* a market cap both different from the stored current values, and saved.
C14_Witness ==
    /\ FetchedCycleOver
    /\ failed_at = "none"
    /\ save_result = "ok"
    /\ sends = 0
    /\ file0.kind = "json"
    /\ current_price # file0.content.price
    /\ current_market_cap # file0.content.market_cap
    /\ file0.content.price # 0

\* A cycle that raised in evaluation after a successful fetch: nothing is
\* saved.
C14_RaisedAfterFetch ==
    FetchedCycleOver /\ failed_at = "eval" /\ data_file = file0

\* ------------------------------------------------------------------ C15

\* send_notification has been called with this cycle's message.
MessageSent == Evaluated /\ should_notify /\ pc # "notify"

\* C15: the message sent in a firing cycle has the price lines iff
\* abs(price_change) >= price_threshold and the market-cap lines iff
\* abs(mcap_change) >= mcap_threshold; a metric under its own threshold is
\* left out even when the other metric caused the notification.
C15_MessageListsCrossedMetrics ==
    MessageSent =>
        /\ sends = 1
        /\ ("price" \in notification_message)
              = (Abs(price_change.num) >= price_threshold * price_change.den)
        /\ ("market_cap" \in notification_message)
              = (Abs(mcap_change.num) >= mcap_threshold * mcap_change.den)
        /\ notification_message \subseteq {"price", "market_cap"}

\* C15 witness: a message sent because of the market cap, in a cycle whose
\* price also moved, by less than its threshold, and is left out.
C15_Witness ==
    /\ MessageSent
    /\ pc = "sleep"
    /\ PositiveThresholds
    /\ notification_message = {"market_cap"}
    /\ price_change.num # 0

\* ------------------------------------------------------------------ C16

\* The decision of lines 174-205 recomputed from a record, a fetched token
\* and the thresholds alone.
Redecide(rec, tok) ==
    Decide(
        calculate_percentage_change(
            tok.price, Or(rec.last_notification_price, tok.price)),
        calculate_percentage_change(
            tok.marketCap, Or(rec.last_notification_market_cap, tok.marketCap)))

C17_TornDownAfterRaise ==
    (pc = "sleep" /\ failed_at # "none") => (~page /\ ~context /\ ~browser)

\* The state C17 excludes: a failed cycle is over and its page handle is
\* still set, so the next cycle skips setup_browser and navigates with it.
C17_StalePage == pc = "sleep" /\ failed_at = "goto" /\ page

\* ------------------------------------------------------------------ C18

\* C18 as stated: no two notification attempts are made against the same
\* baseline.  pending_send records that send_notification was called and no
\* later save has written the advanced last_notification values, so the
\* claim is that send_notification is never about to be called while an
\* earlier attempt is still unrecorded, whatever save failures, crashes and
\* restarts happened in between.
C18_OneAttemptPerBaseline == pc = "notify" => ~pending_send

\* The state C18 excludes, without any crash: the previous cycle sent, its
\* save failed and was swallowed, and this cycle decides on the same
\* baseline again.
C18_SecondAttempt ==
    pc = "notify" /\ pending_send /\ prev_save_failed /\ data_file = file0

\* ------------------------------------------------------------------ C19

RecordKeys ==
    {"price", "market_cap", "last_notification_price",
     "last_notification_market_cap"}

\* C19 as stated, for a monitor started without a data file, so that the
\* file holds only what previous cycles left: whenever load_data is
\* called it does not raise and the record it returns has the four keys.
C19_LoadableRecordsComplete ==
    (fresh /\ pc = "load") =>
        /\ ~LoadRaises(data_file)
        /\ RecordKeys \subseteq DOMAIN LoadResult(data_file)

\* The state C19 excludes: load_data is called on a file that a previous
\* cycle's save left truncated.
C19_TruncatedByEarlierSave ==
    fresh /\ pc = "load" /\ prev_save_failed /\ data_file = CorruptFile

\* ------------------------------------------------------------------ C20

\* C20 as stated: at every moment at most one Playwright driver started by
\* setup_browser is running; every earlier one was released by cleanup
\* before setup_browser started the next.
C20_AtMostOneSession == playwrights <= 1

\* The state C20 excludes: setup_browser has started a second driver after
\* a failed cycle whose cleanup closed page, context and browser.
C20_SecondDriver == playwrights = 2 /\ pc = "goto" /\ page

====
